---- MODULE Spec2Model ----
(***************************************************************************)
(* A model of main.py: the TTL cache (cache_with_timeout, clear_cache) run *)
(* by concurrent callers, and the request dispatchers (handle_prompt,      *)
(* main_py_info) that read through it.                                     *)
(*                                                                         *)
(* Text is modelled as a sequence of one-character strings, so that        *)
(* str(), lower() and the substring test `in` are computed, not assumed.   *)
(* An identifier that the code never takes apart (a function's __name__)   *)
(* is one element of such a sequence.                                      *)
(***************************************************************************)
EXTENDS Integers, Sequences, FiniteSets, TLC

\* ------------------------------------------------------------------ bounds
\* How many times the clock advances in a run of Spec.
MaxTicks == 2
\* Seconds by which one advance of the clock moves time.time().
TickStep == 150
\* Longest string argument of the key-encoding universe.
MaxArgLen == 2

\* --------------------------------------------------------------- constants
\* main.py line 11.
CACHE_TIMEOUT == 300

\* The timeouts a wrapper may be built with (cache_with_timeout(timeout)):
\* the one main.py uses, zero, and a negative one.
Timeouts == {CACHE_TIMEOUT, 0, -1}

Threads == {"t1", "t2"}

\* ------------------------------------------------------- Python's str()
SQ == "'"
DQ == "\""
BS == "\\"

RECURSIVE Concat(_)
\* "".join(parts)
Concat(parts) ==
    IF parts = << >> THEN << >> ELSE Head(parts) \o Concat(Tail(parts))

Chars(s) == {s[i] : i \in DOMAIN s}

RECURSIVE EscapeWith(_, _)
\* The body of repr(s) under quote character q: a backslash and the quote
\* itself are escaped by a backslash.
EscapeWith(s, q) ==
    IF s = << >> THEN << >>
    ELSE (IF Head(s) = BS \/ Head(s) = q THEN <<BS, Head(s)>> ELSE <<Head(s)>>)
         \o EscapeWith(Tail(s), q)

\* repr() of a str: single quotes, unless the text holds a single quote and
\* no double quote.
PyRepr(s) ==
    LET q == IF SQ \in Chars(s) /\ DQ \notin Chars(s) THEN DQ ELSE SQ
    IN  <<q>> \o EscapeWith(s, q) \o <<q>>

RECURSIVE JoinComma(_)
\* ", ".join(items)
JoinComma(items) ==
    IF items = << >> THEN << >>
    ELSE IF Len(items) = 1 THEN Head(items)
    ELSE Head(items) \o <<",", " ">> \o JoinComma(Tail(items))

\* str(args) of a tuple of str: a one-element tuple ends in a comma.
PyTupleStr(args) ==
    <<"(">> \o JoinComma([i \in DOMAIN args |-> PyRepr(args[i])])
            \o (IF Len(args) = 1 THEN <<",">> ELSE << >>) \o <<")">>

\* str(kwargs) of a dict given as its items in insertion order.
PyDictStr(kwargs) ==
    <<"{">> \o JoinComma([i \in DOMAIN kwargs |->
                 PyRepr(kwargs[i][1]) \o <<":", " ">> \o PyRepr(kwargs[i][2])])
            \o <<"}">>

\* A faulty variant of CacheKey: the key leaves the arguments out.
CacheKeyNameOnly(fn, args, kwargs) == <<fn>>

\* wrapper, line 28: f"{func.__name__}:{str(args)}:{str(kwargs)}"
CacheKey(fn, args, kwargs) ==
    <<fn>> \o <<":">> \o PyTupleStr(args) \o <<":">> \o PyDictStr(kwargs)

\* A call of a wrapped function: its name and the arguments as passed.
MkCall(fn, args, kwargs) == [fn |-> fn, args |-> args, kwargs |-> kwargs]

KeyOf(c) == CacheKey(c.fn, c.args, c.kwargs)

\* The calls of analyze_codebase the concurrent model makes: the default
\* path (as codebase_summary and handle_prompt call it) and an explicit one.
Calls ==
    { MkCall("analyze_codebase", << >>, << >>),
      MkCall("analyze_codebase", << <<"s", "r", "c">> >>, << >>) }

\* What the wrapped function returns for a call: it is pure, so the result
\* is determined by the function and the path it is bound to
\* (analyze_codebase(path="./"), line 43).
ResultOf(c) ==
    [fn   |-> c.fn,
     path |-> IF c.args # << >> THEN c.args[1]
              ELSE IF c.kwargs # << >> THEN c.kwargs[1][2]
              ELSE <<".", "/">>]

\* ------------------------------------------------------------ cache state
VARIABLES
    cache,          \* _cache (line 12): key -> [result, timestamp]
    clock,          \* what time.time() returns now
    timeout,        \* the timeout the wrappers were built with (line 14)
    pc,             \* per thread: where it is in wrapper (lines 26-38)
    call,           \* per thread: the call it is making
    key,            \* per thread: wrapper's local `key` (line 28)
    current_time,   \* per thread: wrapper's local `current_time` (line 29)
    result,         \* per thread: wrapper's local `result` (line 36)
    outcome,        \* per thread: what the wrapper returned or raised
    overlapped,     \* history: two wrapper calls were in progress at once
    clearedInFlight,\* history: clear_cache ran while a call was in progress
    wiped,          \* history: keys the last clear_cache removed, not looked up since
    first,          \* history, per thread: its call is the first on its key
                    \* since clear_cache removed that key
    built,          \* history: per key, the clock reading and the value of the
                    \* latest call that ran the wrapped function and returned,
                    \* since the last clear_cache
    reply,          \* the request a resource endpoint has just served: what
                    \* it was given, what it did and what it returned
    preClear,       \* history: the threads whose run of the wrapped function
                    \* had begun when the last clear_cache ran, and goes on
    began,          \* history, per thread: what the clock read when the run
                    \* of the wrapped function began that made the value the
                    \* thread's call holds (0 when it holds none)
    origin,         \* history, per key: what the clock read when the data of
                    \* the key's entry came into being (the run of the
                    \* wrapped function began, the file was read)
    replaced        \* history: the timestamp of the entry the last store
                    \* overwrote, -1 when it overwrote none

\* A wrapper frame's locals, and the history variables.
frame == <<call, key, current_time, result>>
flags == <<overlapped, clearedInFlight>>
cacheVars == <<cache, clock, timeout, pc, frame, outcome, flags, wiped, first,
               built>>
\* What belongs to the concurrent callers of the wrapper.
callers == <<pc, frame, outcome, flags, wiped, first, built, preClear>>
\* Where the entries come from; only StampSpec and NestedSpec follow it.
tracks == <<began, origin, replaced>>

EmptyCache == << >>

NoCall == MkCall("", << >>, << >>)
NoResult == [fn |-> "", path |-> << >>]
NoOutcome == [kind |-> "none", value |-> NoResult, timestamp |-> 0]

\* No request is being served.
NoReply ==
    [endpoint |-> "none", input |-> << >>, action |-> "none", text |-> << >>,
     raised |-> "", calls |-> << >>, ran |-> << >>]

\* A return of `value`; `how` is "hit" (line 33) or "miss" (line 38), and
\* `ts` the timestamp of the entry the value was stored with.
Returned(how, value, ts) == [kind |-> how, value |-> value, timestamp |-> ts]
\* An exception leaving the wrapper: "FnError" raised by the wrapped
\* function, "KeyError" raised by a subscript of _cache.
Raised(what) == [kind |-> what, value |-> NoResult, timestamp |-> 0]

\* A thread is in a call until its caller has taken the outcome.
InFlight(t) == pc[t] # "idle"

\* line 32, left operand: key in _cache
KeyInCache(tbl, k) == k \in DOMAIN tbl

\* A faulty variant of NotExpired: an entry exactly `ttl` old still counts.
NotExpiredInclusive(now, ts, ttl) == now - ts <= ttl

\* line 32, right operand: current_time - _cache[key]['timestamp'] < timeout
NotExpired(now, ts, ttl) == now - ts < ttl

\* A faulty variant of Put: an entry already under the key is kept.
PutIfAbsent(tbl, k, res, now) ==
    [x \in DOMAIN tbl \cup {k} |->
        IF x \in DOMAIN tbl THEN tbl[x]
        ELSE [result |-> res, timestamp |-> now]]

\* A faulty variant of Put: the entry is never stored.
PutForgets(tbl, k, res, now) == tbl

\* A faulty variant of Put: the stamp counts down, the time read is
\* stored negated.
PutCountsDown(tbl, k, res, now) ==
    [x \in DOMAIN tbl \cup {k} |->
        IF x = k THEN [result |-> res, timestamp |-> 0 - now] ELSE tbl[x]]

\* line 37: _cache[key] = {'result': result, 'timestamp': current_time}
Put(tbl, k, res, now) ==
    [x \in DOMAIN tbl \cup {k} |->
        IF x = k THEN [result |-> res, timestamp |-> now] ELSE tbl[x]]

CacheInit ==
    /\ cache = EmptyCache
    /\ clock = 0
    /\ timeout \in Timeouts
    /\ pc = [t \in Threads |-> "idle"]
    /\ call = [t \in Threads |-> NoCall]
    /\ key = [t \in Threads |-> << >>]
    /\ current_time = [t \in Threads |-> 0]
    /\ result = [t \in Threads |-> NoResult]
    /\ outcome = [t \in Threads |-> NoOutcome]
    /\ overlapped = FALSE
    /\ clearedInFlight = FALSE
    /\ wiped = {}
    /\ first = [t \in Threads |-> FALSE]
    /\ built = << >>
    /\ reply = NoReply
    /\ preClear = {}
    /\ began = [t \in Threads |-> 0]
    /\ origin = << >>
    /\ replaced = -1

\* A thread enters wrapper(*args, **kwargs): lines 28-29.
Call(t, c) ==
    /\ pc[t] = "idle"
    /\ pc' = [pc EXCEPT ![t] = "test"]
    /\ call' = [call EXCEPT ![t] = c]
    /\ key' = [key EXCEPT ![t] = KeyOf(c)]
    /\ current_time' = [current_time EXCEPT ![t] = clock]
    /\ overlapped' = (overlapped \/ \E u \in Threads \ {t} : InFlight(u))
    /\ first' = [first EXCEPT ![t] = KeyOf(c) \in wiped]
    /\ wiped' = wiped \ {KeyOf(c)}
    /\ UNCHANGED <<cache, clock, timeout, reply, preClear, result, outcome, clearedInFlight,
                   built>>

\* line 32: `key in _cache`; when false, line 36 starts the wrapped function.
TestMember(t) ==
    /\ pc[t] = "test"
    /\ pc' = [pc EXCEPT ![t] =
                IF KeyInCache(cache, key[t]) THEN "read_ts" ELSE "invoke"]
    /\ UNCHANGED <<cache, clock, timeout, reply, preClear, frame, outcome, flags, wiped, first,
                   built>>

\* line 32: `_cache[key]['timestamp']` and the comparison with timeout.
\* The subscript raises KeyError when the key is no longer in _cache.
ReadTimestamp(t) ==
    /\ pc[t] = "read_ts"
    /\ IF ~KeyInCache(cache, key[t])
       THEN /\ pc' = [pc EXCEPT ![t] = "done"]
            /\ outcome' = [outcome EXCEPT ![t] = Raised("KeyError")]
       ELSE /\ pc' = [pc EXCEPT ![t] =
                       IF NotExpired(current_time[t],
                                     cache[key[t]].timestamp, timeout)
                       THEN "read_result" ELSE "invoke"]
            /\ UNCHANGED outcome
    /\ UNCHANGED <<cache, clock, timeout, reply, preClear, frame, flags, wiped, first, built>>

\* A faulty variant of ReadResult: a hit stamps the entry with the caller's
\* clock reading (a sliding expiry).
ReadResultRefreshes(t) ==
    /\ pc[t] = "read_result"
    /\ pc' = [pc EXCEPT ![t] = "done"]
    /\ outcome' = [outcome EXCEPT ![t] =
                     IF KeyInCache(cache, key[t])
                     THEN Returned("hit", cache[key[t]].result,
                                   cache[key[t]].timestamp)
                     ELSE Raised("KeyError")]
    /\ cache' = IF KeyInCache(cache, key[t])
                THEN Put(cache, key[t], cache[key[t]].result, current_time[t])
                ELSE cache
    /\ UNCHANGED <<clock, timeout, reply, preClear, frame, flags, wiped, first, built>>

\* line 33: return _cache[key]['result']
ReadResult(t) ==
    /\ pc[t] = "read_result"
    /\ pc' = [pc EXCEPT ![t] = "done"]
    /\ outcome' = [outcome EXCEPT ![t] =
                     IF KeyInCache(cache, key[t])
                     THEN Returned("hit", cache[key[t]].result,
                                   cache[key[t]].timestamp)
                     ELSE Raised("KeyError")]
    /\ UNCHANGED <<cache, clock, timeout, reply, preClear, frame, flags, wiped, first, built>>

\* line 36: func(*args, **kwargs) returns.
FnReturn(t) ==
    /\ pc[t] = "invoke"
    /\ pc' = [pc EXCEPT ![t] = "store"]
    /\ result' = [result EXCEPT ![t] = ResultOf(call[t])]
    /\ UNCHANGED <<cache, clock, timeout, reply, preClear, call, key, current_time, outcome,
                   flags, wiped, first, built>>

\* A faulty variant of FnRaise: the failure is cached as the key's entry.
FnRaiseCached(t) ==
    /\ pc[t] = "invoke"
    /\ pc' = [pc EXCEPT ![t] = "done"]
    /\ outcome' = [outcome EXCEPT ![t] = Raised("FnError")]
    /\ cache' = Put(cache, key[t], NoResult, current_time[t])
    /\ preClear' = preClear \ {t}
    /\ UNCHANGED <<clock, timeout, reply, frame, flags, wiped, first, built>>

\* line 36: func(*args, **kwargs) raises; the exception leaves the wrapper.
FnRaise(t) ==
    /\ pc[t] = "invoke"
    /\ pc' = [pc EXCEPT ![t] = "done"]
    /\ outcome' = [outcome EXCEPT ![t] = Raised("FnError")]
    /\ preClear' = preClear \ {t}
    /\ UNCHANGED <<cache, clock, timeout, reply, frame, flags, wiped, first, built>>

\* lines 37-38: store the entry, return result.
Store(t) ==
    /\ pc[t] = "store"
    /\ cache' = Put(cache, key[t], result[t], current_time[t])
    /\ pc' = [pc EXCEPT ![t] = "done"]
    /\ outcome' = [outcome EXCEPT ![t] =
                     Returned("miss", result[t], current_time[t])]
    /\ built' = [x \in DOMAIN built \cup {key[t]} |->
                    IF x = key[t]
                    THEN [time |-> current_time[t], value |-> result[t]]
                    ELSE built[x]]
    /\ preClear' = preClear \ {t}
    /\ UNCHANGED <<clock, timeout, reply, frame, flags, wiped, first>>

\* The caller has taken the wrapper's outcome; the frame is gone.
Return(t) ==
    /\ pc[t] = "done"
    /\ pc' = [pc EXCEPT ![t] = "idle"]
    /\ call' = [call EXCEPT ![t] = NoCall]
    /\ key' = [key EXCEPT ![t] = << >>]
    /\ current_time' = [current_time EXCEPT ![t] = 0]
    /\ result' = [result EXCEPT ![t] = NoResult]
    /\ outcome' = [outcome EXCEPT ![t] = NoOutcome]
    /\ first' = [first EXCEPT ![t] = FALSE]
    /\ UNCHANGED <<cache, clock, timeout, reply, preClear, flags, wiped, built>>

\* A faulty variant of ClearCache: only the expired entries are dropped.
ClearExpiredOnly ==
    /\ cache' = [k \in {x \in DOMAIN cache :
                          NotExpired(clock, cache[x].timestamp, timeout)}
                    |-> cache[k]]
    /\ wiped' = DOMAIN cache
    /\ clearedInFlight' = (clearedInFlight \/ \E u \in Threads : InFlight(u))
    /\ built' = << >>
    /\ preClear' = {t \in Threads : pc[t] \in {"invoke", "store"}}
    /\ UNCHANGED <<clock, timeout, reply, pc, frame, outcome, overlapped, first>>

\* clear_cache, lines 222-225: _cache = {}
ClearCache ==
    /\ cache' = EmptyCache
    /\ wiped' = DOMAIN cache
    /\ clearedInFlight' = (clearedInFlight \/ \E u \in Threads : InFlight(u))
    /\ built' = << >>
    /\ preClear' = {t \in Threads : pc[t] \in {"invoke", "store"}}
    /\ UNCHANGED <<clock, timeout, reply, pc, frame, outcome, overlapped, first>>

\* Time passes: time.time() (line 29) is non-decreasing.
Tick ==
    /\ clock + TickStep <= MaxTicks * TickStep
    /\ clock' = clock + TickStep
    /\ UNCHANGED <<cache, timeout, reply, preClear, pc, frame, outcome, flags, wiped, first,
                   built>>

vars == <<cacheVars, reply, preClear, tracks>>

Init == CacheInit

Next ==
    \/ \E t \in Threads, c \in Calls : Call(t, c) /\ UNCHANGED tracks
    \/ \E t \in Threads : TestMember(t) /\ UNCHANGED tracks
    \/ \E t \in Threads : ReadTimestamp(t) /\ UNCHANGED tracks
    \/ \E t \in Threads : ReadResult(t) /\ UNCHANGED tracks
    \/ \E t \in Threads : FnReturn(t) /\ UNCHANGED tracks
    \/ \E t \in Threads : FnRaise(t) /\ UNCHANGED tracks
    \/ \E t \in Threads : Store(t) /\ UNCHANGED tracks
    \/ \E t \in Threads : Return(t) /\ UNCHANGED tracks
    \/ ClearCache /\ UNCHANGED tracks
    \/ Tick /\ UNCHANGED tracks

Spec == Init /\ [][Next]_vars

\* ------------------------------------------- callers of one and the same key
\* The call both threads make: analyze_codebase() with the default path.
SameCall == MkCall("analyze_codebase", << >>, << >>)

\* A step of thread t in wrapper, with the history of where values come
\* from: the run of the wrapped function begins when line 36 is reached; a
\* store (line 37) hands the run's beginning to the entry; a hit (line 33)
\* takes the beginning of the run that made the entry it returns.
Track(t) ==
    /\ began' = [began EXCEPT ![t] =
                   IF pc[t] # "invoke" /\ pc'[t] = "invoke" THEN clock
                   ELSE IF pc[t] = "read_result" /\ outcome'[t].kind = "hit"
                        THEN origin[key[t]]
                   ELSE IF pc'[t] = "idle" THEN 0
                   ELSE @]
    /\ origin' = IF pc[t] = "store"
                 THEN [k \in DOMAIN origin \cup {key[t]} |->
                          IF k = key[t] THEN began[t] ELSE origin[k]]
                 ELSE origin
    /\ replaced' = IF pc[t] = "store"
                   THEN IF KeyInCache(cache, key[t])
                        THEN cache[key[t]].timestamp ELSE -1
                   ELSE replaced

\* clear_cache leaves no entry, so none has an origin.
TrackClear ==
    /\ origin' = << >>
    /\ replaced' = -1
    /\ UNCHANGED began

\* Two threads calling analyze_codebase() under one key, as main.py wraps
\* it (line 41: the timeout is CACHE_TIMEOUT).
StampInit == CacheInit /\ timeout = CACHE_TIMEOUT

StampNext ==
    \/ \E t \in Threads : Call(t, SameCall) /\ Track(t)
    \/ \E t \in Threads : TestMember(t) /\ Track(t)
    \/ \E t \in Threads : ReadTimestamp(t) /\ Track(t)
    \/ \E t \in Threads : ReadResult(t) /\ Track(t)
    \/ \E t \in Threads : FnReturn(t) /\ Track(t)
    \/ \E t \in Threads : FnRaise(t) /\ Track(t)
    \/ \E t \in Threads : Store(t) /\ Track(t)
    \/ \E t \in Threads : Return(t) /\ Track(t)
    \/ ClearCache /\ TrackClear
    \/ Tick /\ UNCHANGED tracks

StampSpec == StampInit /\ [][StampNext]_vars

\* ---------------------------------------------------- text of the requests
\* Longest prompt of the prompt universe, in words.
MaxWords == 3

UpperCase ==
    <<"A", "B", "C", "D", "E", "F", "G", "H", "I", "J", "K", "L", "M",
      "N", "O", "P", "Q", "R", "S", "T", "U", "V", "W", "X", "Y", "Z">>
LowerCase ==
    <<"a", "b", "c", "d", "e", "f", "g", "h", "i", "j", "k", "l", "m",
      "n", "o", "p", "q", "r", "s", "t", "u", "v", "w", "x", "y", "z">>

\* str.lower() on the letters A-Z.
LowerOf ==
    [ch \in {UpperCase[i] : i \in DOMAIN UpperCase} |->
        LowerCase[CHOOSE i \in DOMAIN UpperCase : UpperCase[i] = ch]]

\* str.lower() on one character: any other character is kept.
LowerChar(ch) == IF ch \in DOMAIN LowerOf THEN LowerOf[ch] ELSE ch

\* line 189: prompt.lower()
Lower(text) == [i \in DOMAIN text |-> LowerChar(text[i])]

\* `term in text` on str: term occurs in text as a substring.
Contains(text, term) ==
    \E i \in 0..(Len(text) - Len(term)) :
        \A j \in DOMAIN term : text[i + j] = term[j]

RECURSIVE JoinWith(_, _)
\* sep.join(items)
JoinWith(sep, items) ==
    IF items = << >> THEN << >>
    ELSE IF Len(items) = 1 THEN Head(items)
    ELSE Head(items) \o sep \o JoinWith(sep, Tail(items))

\* The keywords handle_prompt looks for (lines 193-217).
KwMainPy == <<"m", "a", "i", "n", ".", "p", "y">>
KwContent == <<"c", "o", "n", "t", "e", "n", "t">>
KwShow == <<"s", "h", "o", "w">>
KwFunction == <<"f", "u", "n", "c", "t", "i", "o", "n">>
KwDef == <<"d", "e", "f">>
KwImport == <<"i", "m", "p", "o", "r", "t">>
KwResource == <<"r", "e", "s", "o", "u", "r", "c", "e">>
KwEndpoint == <<"e", "n", "d", "p", "o", "i", "n", "t">>
KwAnalyze == <<"a", "n", "a", "l", "y", "z", "e">>
KwStructure == <<"s", "t", "r", "u", "c", "t", "u", "r", "e">>
KwCodebase == <<"c", "o", "d", "e", "b", "a", "s", "e">>
KwFile == <<"f", "i", "l", "e">>

\* The keys of detail_handlers, in the order of the dict (lines 165-169).
DetailContent == KwContent
DetailAnalysis == <<"a", "n", "a", "l", "y", "s", "i", "s">>
DetailFunctions == <<"f", "u", "n", "c", "t", "i", "o", "n", "s">>
DetailImports == <<"i", "m", "p", "o", "r", "t", "s">>
DetailResources == <<"r", "e", "s", "o", "u", "r", "c", "e", "s">>
\* A faulty variant of DetailNames: the last selector is missing.
DetailNamesWithoutResources ==
    <<DetailContent, DetailAnalysis, DetailFunctions, DetailImports>>
DetailNames ==
    <<DetailContent, DetailAnalysis, DetailFunctions, DetailImports,
      DetailResources>>

\* The details main_py_info is asked for: the five selectors, and strings
\* that are none of them (one differs from a selector by case only).
Details ==
    {DetailNames[i] : i \in DOMAIN DetailNames}
    \cup { <<"b", "o", "g", "u", "s">>,
           <<"C", "o", "n", "t", "e", "n", "t">>,
           << >> }

\* The words prompts are made of: every keyword, some in mixed case, some
\* inside a longer word, and a word that holds no keyword.
Vocabulary ==
    { <<"M", "a", "i", "n", ".", "P", "Y">>,
      <<"C", "o", "n", "t", "e", "n", "t">>,
      <<"s", "h", "o", "w">>,
      <<"f", "u", "n", "c", "t", "i", "o", "n", "s">>,
      <<"u", "n", "d", "e", "f", "i", "n", "e", "d">>,
      <<"I", "m", "p", "o", "r", "t", "s">>,
      <<"r", "e", "s", "o", "u", "r", "c", "e">>,
      <<"E", "n", "d", "p", "o", "i", "n", "t">>,
      <<"a", "n", "a", "l", "y", "z", "e">>,
      <<"S", "t", "r", "u", "c", "t", "u", "r", "e">>,
      <<"c", "o", "d", "e", "b", "a", "s", "e">>,
      <<"p", "r", "o", "f", "i", "l", "e">>,
      <<"W", "e", "a", "t", "h", "e", "r">> }

\* "show me the content of main.py"
ShowMeTheContent ==
    JoinWith(<<" ">>, << KwShow, <<"m", "e">>, <<"t", "h", "e">>, KwContent,
                         <<"o", "f">>, KwMainPy >>)

\* "what's the weather"
WhatsTheWeather ==
    JoinWith(<<" ">>, << <<"w", "h", "a", "t", "'", "s">>, <<"t", "h", "e">>,
                         <<"w", "e", "a", "t", "h", "e", "r">> >>)

\* The prompts handle_prompt is given: up to MaxWords words of the
\* vocabulary separated by blanks, and two whole sentences.
Prompts ==
    { JoinWith(<<" ">>, ws) :
        ws \in UNION { [1..n -> Vocabulary] : n \in 0..MaxWords } }
    \cup {ShowMeTheContent, WhatsTheWeather}

\* ------------------------------------------------ the analyzer's functions
\* Python's None, and a value bound to a name: a name holds << >> or <<v>>.
PyNone == << >>
Some(v) == <<v>>

\* What get_main_py_content reads (lines 93-94): the text of main.py, here
\* two lines.
MainPyText == <<"import os", "\n", "def clear_cache() -> None:">>

\* The dict analyze_main_py builds from the content (lines 107-144).
AnalysisOf(content) ==
    [filename   |-> <<"main.py">>,
     line_count |-> Cardinality({i \in DOMAIN content : content[i] = "\n"}) + 1,
     functions  |-> << [name |-> <<"clear_cache">>,
                        signature |-> <<"() -> None">>],
                       [name |-> <<"clear_cache_endpoint">>,
                        signature |-> <<"() -> str">>] >>,
     imports    |-> << SubSeq(content, 1, 1) >>,
     resources  |-> << <<"system://cache/clear -> clear_cache_endpoint() -> str">> >>]

\* str() of the analysis dict, as one piece of text.
StrOfAnalysis(a) ==
    <<"{'filename': '">> \o a.filename \o <<"', ...}">>

\* str() of a list of str.
PyListStr(items) ==
    <<"[">> \o JoinComma([i \in DOMAIN items |-> PyRepr(items[i])]) \o <<"]">>

\* A request in progress: the table as its calls have left it, the wrapped
\* functions it has called in order, those whose body has run in order, and
\* the value the last call returned.
Begin(tbl) == [table |-> tbl, calls |-> << >>, ran |-> << >>, value |-> PyNone]

\* lines 32-33 within one request: the entry is there and not expired.
Hit(tbl, k, now) ==
    KeyInCache(tbl, k) /\ NotExpired(now, tbl[k].timestamp, CACHE_TIMEOUT)

\* analyze_codebase() through its wrapper (lines 41-43, 26-38).
analyze_codebase(r, now) ==
    LET c == MkCall("analyze_codebase", << >>, << >>)
        k == KeyOf(c)
        called == [r EXCEPT !.calls = Append(@, "analyze_codebase")]
    IN  IF Hit(r.table, k, now)
        THEN [called EXCEPT !.value = Some(r.table[k].result)]
        ELSE [called EXCEPT !.ran = Append(@, "analyze_codebase"),
                            !.table = Put(r.table, k, ResultOf(c), now),
                            !.value = Some(ResultOf(c))]

\* get_main_py_content() through its wrapper (lines 89-96, 26-38).
get_main_py_content(r, now) ==
    LET k == CacheKey("get_main_py_content", << >>, << >>)
        called == [r EXCEPT !.calls = Append(@, "get_main_py_content")]
    IN  IF Hit(r.table, k, now)
        THEN [called EXCEPT !.value = Some(r.table[k].result)]
        ELSE [called EXCEPT !.ran = Append(@, "get_main_py_content"),
                            !.table = Put(r.table, k, MainPyText, now),
                            !.value = Some(MainPyText)]

\* analyze_main_py() through its wrapper (lines 98-144, 26-38): on a miss
\* its body calls get_main_py_content() (line 106), then its own entry is
\* stored.
analyze_main_py(r, now) ==
    LET k == CacheKey("analyze_main_py", << >>, << >>)
        called == [r EXCEPT !.calls = Append(@, "analyze_main_py")]
    IN  IF Hit(r.table, k, now)
        THEN [called EXCEPT !.value = Some(r.table[k].result)]
        ELSE LET c == get_main_py_content(
                          [called EXCEPT !.ran = Append(@, "analyze_main_py")],
                          now)
                 a == AnalysisOf(c.value[1])
             IN  [c EXCEPT !.table = Put(c.table, k, a, now),
                           !.value = Some(a)]

\* ----------------------------------------------------------- dispatchers
\* A faulty variant of Answer: a request served from the cache alone
\* reports another action.
AnswerMarksHits(action, text, r) ==
    [action |-> IF r.calls # << >> /\ r.ran = << >> THEN "cached" ELSE action,
     text |-> text, raised |-> "",
     table |-> r.table, calls |-> r.calls, ran |-> r.ran]

\* What a handler did: the return statement it reached (`action`), the text
\* it returned, the exception that left it ("" when none), and the request
\* as its calls have left it.
Answer(action, text, r) ==
    [action |-> action, text |-> text, raised |-> "",
     table |-> r.table, calls |-> r.calls, ran |-> r.ran]

\* A subscript of `analysis` (lines 167-169, 203-208): None is not
\* subscriptable.
Subscript(analysis, action, r) ==
    IF analysis = PyNone
    THEN [action |-> action, text |-> << >>, raised |-> "TypeError",
          table |-> r.table, calls |-> r.calls, ran |-> r.ran]
    ELSE Answer(action,
                CASE action = "functions" ->
                         <<"Functions in main.py:\n">>
                         \o JoinWith(<<"\n">>,
                                [i \in DOMAIN analysis[1].functions |->
                                    analysis[1].functions[i].name
                                    \o analysis[1].functions[i].signature])
                  [] action = "imports" ->
                         <<"Imports in main.py:\n">>
                         \o JoinWith(<<"\n">>, analysis[1].imports)
                  [] action = "resources" ->
                         <<"Resources in main.py:\n">>
                         \o JoinWith(<<"\n">>, analysis[1].resources),
                r)

\* A faulty variant of AnalysisTerms: "endpoint" is left out.
AnalysisTermsWithoutEndpoint ==
    <<KwFunction, KwDef, KwImport, KwResource, KwAnalyze, KwStructure>>

\* A faulty variant of AnalysisTerms: "file" is one of the terms.
AnalysisTermsWithFile ==
    <<KwFunction, KwDef, KwImport, KwResource, KwEndpoint, KwAnalyze,
      KwStructure, KwFile>>

\* lines 195-196: the terms that make handle_prompt call analyze_main_py.
AnalysisTerms ==
    <<KwFunction, KwDef, KwImport, KwResource, KwEndpoint, KwAnalyze,
      KwStructure>>

HelpText ==
    <<"I can answer questions about main.py. Try asking about its content, functions, imports, resources, or structure.">>
FileText ==
    <<"I can help with file operations. Please specify which file you're interested in.">>
EchoSuffix ==
    <<"\nI'm your MCP server. I can analyze your codebase and answer questions about it, especially about main.py.">>

\* A faulty variant of Echo: the case-folded prompt is restated.
EchoFolded(prompt) == <<"You asked: ">> \o Lower(prompt) \o EchoSuffix

\* line 220: f"You asked: {prompt}\n..."
Echo(prompt) == <<"You asked: ">> \o prompt \o EchoSuffix

\* A faulty variant of IntentOf: the function list is tested before the
\* content request.
IntentOfFunctionsFirst(prompt_lower) ==
    IF Contains(prompt_lower, KwFunction) \/ Contains(prompt_lower, KwDef)
        THEN "functions"
    ELSE IF Contains(prompt_lower, KwContent) \/ Contains(prompt_lower, KwShow)
        THEN "content"
    ELSE IF Contains(prompt_lower, KwImport)
        THEN "imports"
    ELSE IF Contains(prompt_lower, KwResource)
            \/ Contains(prompt_lower, KwEndpoint)
        THEN "resources"
    ELSE IF Contains(prompt_lower, KwAnalyze)
            \/ Contains(prompt_lower, KwStructure)
        THEN "analysis"
    ELSE "help"

\* The if/elif chain of lines 199-212: the branch it takes.
IntentOf(prompt_lower) ==
    IF Contains(prompt_lower, KwContent) \/ Contains(prompt_lower, KwShow)
        THEN "content"
    ELSE IF Contains(prompt_lower, KwFunction) \/ Contains(prompt_lower, KwDef)
        THEN "functions"
    ELSE IF Contains(prompt_lower, KwImport)
        THEN "imports"
    ELSE IF Contains(prompt_lower, KwResource)
            \/ Contains(prompt_lower, KwEndpoint)
        THEN "resources"
    ELSE IF Contains(prompt_lower, KwAnalyze)
            \/ Contains(prompt_lower, KwStructure)
        THEN "analysis"
    ELSE "help"

\* handle_prompt, lines 189-220.
handle_prompt(prompt, tbl, now) ==
    LET prompt_lower == Lower(prompt)
    IN
    IF Contains(prompt_lower, KwMainPy) THEN
        \* lines 195-197: analysis stays None unless a term is found
        LET r == IF \E i \in DOMAIN AnalysisTerms :
                        Contains(prompt_lower, AnalysisTerms[i])
                 THEN analyze_main_py(Begin(tbl), now)
                 ELSE Begin(tbl)
            analysis == r.value
            intent == IntentOf(prompt_lower)
        IN  CASE intent = "content" ->
                    LET c == get_main_py_content(r, now)
                    IN  Answer("content", c.value[1], c)
              [] intent \in {"functions", "imports", "resources"} ->
                    Subscript(analysis, intent, r)
              [] intent = "analysis" ->
                    Answer("analysis",
                           <<"Analysis of main.py:\n">>
                           \o (IF analysis = PyNone THEN <<"None">>
                               ELSE StrOfAnalysis(analysis[1])),
                           r)
              [] intent = "help" ->
                    Answer("help", HelpText, r)
    ELSE IF Contains(prompt_lower, KwCodebase) THEN
        LET s == analyze_codebase(Begin(tbl), now)
        IN  Answer("codebase", <<"Codebase Summary for ">> \o s.value[1].path, s)
    ELSE IF Contains(prompt_lower, KwFile) THEN
        Answer("file", FileText, Begin(tbl))
    ELSE
        Answer("echo", Echo(prompt), Begin(tbl))

\* main_py_info, lines 162-176.
main_py_info(detail, tbl, now) ==
    LET r == analyze_main_py(Begin(tbl), now)
        analysis == r.value
    IN  IF detail = DetailContent THEN
            LET c == get_main_py_content(r, now)
            IN  Answer("content", c.value[1], c)
        ELSE IF detail = DetailAnalysis THEN
            Answer("analysis", StrOfAnalysis(analysis[1]), r)
        ELSE IF detail = DetailFunctions THEN
            Answer("functions",
                   PyListStr([i \in DOMAIN analysis[1].functions |->
                                 analysis[1].functions[i].name
                                 \o analysis[1].functions[i].signature]),
                   r)
        ELSE IF detail = DetailImports THEN
            Answer("imports", PyListStr(analysis[1].imports), r)
        ELSE IF detail = DetailResources THEN
            Answer("resources", PyListStr(analysis[1].resources), r)
        ELSE
            Answer("unknown",
                   <<"Unknown detail type: ">> \o detail
                   \o <<". Available options: ">>
                   \o JoinWith(<<",", " ">>, DetailNames),
                   r)

\* codebase_summary, lines 146-148.
codebase_summary(tbl, now) ==
    LET s == analyze_codebase(Begin(tbl), now)
    IN  Answer("summary", <<"Codebase Summary for ">> \o s.value[1].path, s)

\* ------------------------------------------------- the resource endpoints
\* One request is served at a time; a handler runs from its first line to
\* its return without another request in between.
Idle == reply.endpoint = "none"

Serve(endpoint, input, o) ==
    /\ Idle
    /\ cache' = o.table
    /\ reply' = [endpoint |-> endpoint, input |-> input, action |-> o.action,
                 text |-> o.text, raised |-> o.raised, calls |-> o.calls,
                 ran |-> o.ran]
    /\ UNCHANGED <<clock, timeout, callers>>

\* prompt://question/{prompt}
HandlePrompt(prompt) ==
    Serve("handle_prompt", prompt, handle_prompt(prompt, cache, clock))

\* code://main.py/{detail}
MainPyInfo(detail) ==
    Serve("main_py_info", detail, main_py_info(detail, cache, clock))

\* codebase://summary
CodebaseSummary ==
    Serve("codebase_summary", << >>, codebase_summary(cache, clock))

\* system://cache/clear, lines 227-231: clear_cache(), then the confirmation.
ClearCacheEndpoint ==
    Serve("clear_cache_endpoint", << >>,
          Answer("cleared", <<"Cache cleared successfully">>,
                 Begin(EmptyCache)))

\* The response has gone out.
Respond ==
    /\ ~Idle
    /\ reply' = NoReply
    /\ UNCHANGED <<cache, clock, timeout, callers>>

\* The server as its requests see it: the wrappers of main.py are built
\* with CACHE_TIMEOUT (lines 41, 89, 98).  The clock stands still here, so
\* an entry, once stored, is a hit until the cache is cleared; expiry and
\* interleaved callers are the subject of Spec.
DispatchInit == CacheInit /\ timeout = CACHE_TIMEOUT

DispatchNext ==
    \/ Idle /\ \E prompt \in Prompts : HandlePrompt(prompt) /\ UNCHANGED tracks
    \/ Idle /\ \E detail \in Details : MainPyInfo(detail) /\ UNCHANGED tracks
    \/ CodebaseSummary /\ UNCHANGED tracks
    \/ ClearCacheEndpoint /\ UNCHANGED tracks
    \/ Respond /\ UNCHANGED tracks

DispatchSpec == DispatchInit /\ [][DispatchNext]_vars

\* ------------------------------------------------ the nested cached reads
\* How many times the clock advances in a run of NestedSpec.
MaxAdvances == 4

ContentKey == CacheKey("get_main_py_content", << >>, << >>)
AnalysisKey == CacheKey("analyze_main_py", << >>, << >>)

\* Where the data of the two entries comes from, after a request: a run of
\* get_main_py_content reads the file now (lines 93-94); a run of
\* analyze_main_py derives its result from the content its call of
\* get_main_py_content returned (lines 106-107), read now or cached.
TrackRead ==
    LET ranNow(fn) == \E i \in DOMAIN reply'.ran : reply'.ran[i] = fn
        read == IF ranNow("get_main_py_content")
                THEN [k \in DOMAIN origin \cup {ContentKey} |->
                         IF k = ContentKey THEN clock ELSE origin[k]]
                ELSE origin
    IN  /\ origin' = IF ranNow("analyze_main_py")
                     THEN [k \in DOMAIN read \cup {AnalysisKey} |->
                              IF k = AnalysisKey THEN read[ContentKey]
                              ELSE read[k]]
                     ELSE read
        /\ UNCHANGED <<began, replaced>>

\* Time passes between two requests.
Advance ==
    /\ Idle
    /\ clock + TickStep <= MaxAdvances * TickStep
    /\ clock' = clock + TickStep
    /\ UNCHANGED <<cache, timeout, reply, callers, tracks>>

\* Requests that read main.py through the two wrappers, one at a time, and
\* the clock advancing between them; without a clear_cache.  The content
\* prompt calls get_main_py_content alone (line 200), main_py_info calls
\* analyze_main_py (line 162).
NestedNext ==
    \/ Idle /\ HandlePrompt(ShowMeTheContent) /\ TrackRead
    \/ Idle /\ \E detail \in Details : MainPyInfo(detail) /\ TrackRead
    \/ Respond /\ UNCHANGED tracks
    \/ Advance

NestedSpec == DispatchInit /\ [][NestedNext]_vars

\* ------------------------------------------------------------------ claims
\* No call has overlapped another call or a clear_cache so far.
Sequential == ~overlapped /\ ~clearedInFlight

\* The thread's call has run (or is running) the wrapped function.
Invoking(t) == pc[t] \in {"invoke", "store"}
HasReturned(t, how) == pc[t] = "done" /\ outcome[t].kind = how

\* C1, as stated: any two calls with identical arguments whose clock
\* readings are less than the timeout T > 0 apart, with no clear_cache in
\* between, run the wrapped function at most once between them.
C1_AnyTwoCallsInvokeOnce ==
    \A a, b \in Threads :
        (/\ a # b
         /\ timeout > 0
         /\ ~clearedInFlight
         /\ call[a] = call[b]
         /\ current_time[a] - current_time[b] < timeout
         /\ current_time[b] - current_time[a] < timeout
         /\ Invoking(a))
        => ~Invoking(b)

\* C1, amended: when calls do not overlap, a call whose clock reading (taken
\* on entry, before the wrapped function runs) is less than T after the clock
\* reading of the latest call that ran the function for the same arguments
\* (no clear_cache in between) does not run the function, and a hit returns
\* the very value that call returned; this holds however long the function
\* took, the clock advancing while it runs.
C1_SequentialCallsInvokeOnce ==
    ~overlapped =>
        \A t \in Threads :
            /\ (Invoking(t) /\ key[t] \in DOMAIN built)
                   => current_time[t] - built[key[t]].time >= timeout
            /\ (HasReturned(t, "hit") /\ ~clearedInFlight)
                   => /\ key[t] \in DOMAIN built
                      /\ outcome[t].value = built[key[t]].value
                      /\ current_time[t] - built[key[t]].time < timeout

\* C1 witness: a hit by a non-overlapping call made after the clock advanced
\* past the clock reading of the call that built the entry.
C1_Witness ==
    \E t \in Threads :
        /\ Sequential
        /\ HasReturned(t, "hit")
        /\ key[t] \in DOMAIN built
        /\ current_time[t] > built[key[t]].time

\* Steps of one thread, recognised by where it was and where it is.
TimestampStep(t) == pc[t] = "read_ts" /\ pc'[t] # "read_ts"
StoreStep(t) == pc[t] = "store" /\ pc'[t] = "done"
RaiseStep(t) == pc[t] = "invoke" /\ pc'[t] = "done"

C3_NextCallAfterClearMisses ==
    \A t \in Threads :
        first[t] => /\ pc[t] \notin {"read_ts", "read_result"}
                    /\ pc[t] = "done" => outcome[t].kind \in {"miss", "FnError"}

\* C3, amended: clear_cache leaves the table empty whatever it held, and,
\* when no call overlaps the clear or another call (an overlapping call may
\* store its entry into the new table first), the next call on any key that
\* was cached before the clear, valid or expired, is a miss and runs the
\* wrapped function.
C3_ClearIsTotal ==
    Sequential =>
        /\ (\A t \in Threads : ~InFlight(t))
               => \A k \in wiped : ~KeyInCache(cache, k)
        /\ C3_NextCallAfterClearMisses

\* C3 witness: the next call on a key whose entry was still valid when it was
\* cleared (the clock has never advanced) is running the wrapped function.
C3_Witness ==
    \E t \in Threads :
        /\ Sequential
        /\ timeout > 0
        /\ clock = 0
        /\ first[t]
        /\ pc[t] = "store"

\* C4: when the wrapped function raises, its exception is what leaves the
\* wrapper and the raising call writes nothing: the table changes only by a
\* store of a call whose function returned or by clear_cache, so no entry is
\* written and a stale entry is left as it was; and when calls do not
\* overlap the key has no valid entry afterwards, so the next call with the
\* same arguments runs the function again.
C4_NoNegativeCaching ==
    /\ [][\A t \in Threads :
            RaiseStep(t) => /\ cache' = cache
                            /\ outcome'[t].kind = "FnError"]_vars
    /\ [][cache' # cache
            => \/ cache' = EmptyCache
               \/ \E t \in Threads : StoreStep(t) /\ result[t] = ResultOf(call[t])]_vars
    /\ [](\A t \in Threads :
            (Sequential /\ HasReturned(t, "FnError"))
                => \/ ~KeyInCache(cache, key[t])
                   \/ clock - cache[key[t]].timestamp >= timeout)

\* C4 witness: the wrapped function raised in a call that found a stale
\* entry, and the entry is still in the table.
C4_Witness ==
    \E t \in Threads :
        /\ Sequential
        /\ timeout > 0
        /\ HasReturned(t, "FnError")
        /\ KeyInCache(cache, key[t])

\* C5: every exception that leaves a wrapper was raised by the wrapped
\* function; the subscripts of _cache never fail.
C5_OnlyFunctionErrors ==
    \A t \in Threads : pc[t] = "done" => outcome[t].kind # "KeyError"

\* The string arguments of the key-encoding universe: every text of at most
\* MaxArgLen characters over letters, both quotes and the backslash.
ArgAlphabet == {"a", SQ, DQ, BS}
ArgStrings == UNION {[1..n -> ArgAlphabet] : n \in 0..MaxArgLen}

\* Calls of one wrapped function: no argument, one positional string, or
\* one keyword string.
CallUniverse ==
    {MkCall("analyze_codebase", << >>, << >>)}
    \cup {MkCall("analyze_codebase", <<s>>, << >>) : s \in ArgStrings}
    \cup {MkCall("analyze_codebase", << >>, << <<<<"p", "a", "t", "h">>, s>> >>) :
            s \in ArgStrings}

KeysDistinct ==
    \A c, d \in CallUniverse : c # d => KeyOf(c) # KeyOf(d)

\* C6: two calls of the same wrapped function with different arguments have
\* distinct keys; so the value a call gets, from the table or from its own
\* run, is the value for its own arguments, and every entry sits under the
\* key of the arguments it was computed for (a store never lands on the
\* entry of other arguments).
C6_ArgumentsDoNotCollide ==
    /\ KeysDistinct
    /\ \A t \in Threads :
           (HasReturned(t, "hit") \/ HasReturned(t, "miss"))
               => outcome[t].value = ResultOf(call[t])
    /\ \A c \in Calls :
           KeyInCache(cache, KeyOf(c)) => cache[KeyOf(c)].result = ResultOf(c)

\* C6 witness: entries for both argument lists are cached and a call has
\* been served from the table.
C6_Witness ==
    \E t \in Threads :
        /\ HasReturned(t, "hit")
        /\ \A c \in Calls : KeyInCache(cache, KeyOf(c))

\* C7, as stated: with a timeout of 0 or less every call is a miss.
C7_NonPositiveTimeoutNeverHits ==
    timeout <= 0 =>
        \A t \in Threads : pc[t] # "read_result" /\ ~HasReturned(t, "hit")

\* C7, amended: with a timeout of 0 or less and a non-decreasing clock,
\* every call that overlaps no other call is a miss and runs the wrapped
\* function, whatever entries the table holds.
C7_SequentialNonPositiveTimeoutNeverHits ==
    ~overlapped => C7_NonPositiveTimeoutNeverHits

\* C7 witness: a non-overlapping call of a wrapper with timeout 0 found its
\* key in the table, stored at this very clock reading, and ran the function.
C7_Witness ==
    \E t \in Threads :
        /\ Sequential
        /\ timeout = 0
        /\ pc[t] = "invoke"
        /\ KeyInCache(cache, key[t])
        /\ cache[key[t]].timestamp = current_time[t]

\* ------------------------------------------------- claims on the dispatch
\* The priority order of the intents of a main.py prompt, each with the
\* keywords that select it.
Intents ==
    << [action |-> "content",   terms |-> {KwContent, KwShow}],
       [action |-> "functions", terms |-> {KwFunction, KwDef}],
       [action |-> "imports",   terms |-> {KwImport}],
       [action |-> "resources", terms |-> {KwResource, KwEndpoint}],
       [action |-> "analysis",  terms |-> {KwAnalyze, KwStructure}] >>

\* The case-folded text holds a keyword of the i-th intent.
Matches(text, i) == \E term \in Intents[i].terms : Contains(Lower(text), term)

\* handle_prompt has just served a prompt that names main.py.
AboutMainPy ==
    reply.endpoint = "handle_prompt" /\ Contains(Lower(reply.input), KwMainPy)

\* The request called the wrapped function `fn`.
Called(fn) == \E i \in DOMAIN reply.calls : reply.calls[i] = fn

\* C8: for a prompt whose case-folded text contains "main.py",
\* handle_prompt takes the first intent, in the order content, functions,
\* imports, resources, structure, one of whose keywords the text contains,
\* whatever later intents match as well; the content intent returns the
\* text of main.py; "show me the content of main.py" gets the content.
C8_FirstMatchWins ==
    AboutMainPy =>
        /\ \A i \in DOMAIN Intents :
              (/\ Matches(reply.input, i)
               /\ \A j \in 1..(i - 1) : ~Matches(reply.input, j))
              => reply.action = Intents[i].action
        /\ Matches(reply.input, 1) => reply.text = MainPyText
        /\ reply.input = ShowMeTheContent => reply.action = "content"

\* C8 happens: a main.py prompt that matches the content intent and the
\* function intent has got the content.
C8_Witness ==
    /\ AboutMainPy
    /\ Matches(reply.input, 1)
    /\ Matches(reply.input, 2)
    /\ reply.action = "content"
    /\ reply.text = MainPyText

\* C9, as stated: a request whose selected action is the content rendering
\* (handle_prompt on a main.py prompt with "content" or "show", main_py_info
\* with detail "content") has not called analyze_main_py.
C9_ContentForcesNoAnalysis ==
    (/\ reply.endpoint \in {"handle_prompt", "main_py_info"}
     /\ reply.action = "content")
    => ~Called("analyze_main_py")

\* C10: handle_prompt never raises; whenever the branch it takes reads the
\* analysis (functions, imports, resources, structure), analyze_main_py
\* was the first call of the request, so the analysis is not None there.
C10_AnalysisBoundWhenRead ==
    reply.endpoint = "handle_prompt" =>
        /\ reply.raised = ""
        /\ reply.text # << >>
        /\ reply.action \in {"functions", "imports", "resources", "analysis"}
           => /\ reply.calls # << >>
              /\ reply.calls[1] = "analyze_main_py"
              /\ reply.text # <<"Analysis of main.py:\n", "None">>

\* C10 happens: a prompt whose only intent keyword is "endpoint" has got
\* the resource list, read from the analysis.
C10_Witness ==
    /\ AboutMainPy
    /\ Contains(Lower(reply.input), KwEndpoint)
    /\ \A i \in 1..3 : ~Matches(reply.input, i)
    /\ ~Contains(Lower(reply.input), KwResource)
    /\ reply.action = "resources"
    /\ reply.raised = ""
    /\ reply.calls[1] = "analyze_main_py"

\* The five selectors of main_py_info, as the words of the specification.
ValidSelectors ==
    { <<"c", "o", "n", "t", "e", "n", "t">>,
      <<"a", "n", "a", "l", "y", "s", "i", "s">>,
      <<"f", "u", "n", "c", "t", "i", "o", "n", "s">>,
      <<"i", "m", "p", "o", "r", "t", "s">>,
      <<"r", "e", "s", "o", "u", "r", "c", "e", "s">> }

\* "content, analysis, functions, imports, resources"
ValidSelectorList ==
    <<"c", "o", "n", "t", "e", "n", "t", ",", " ", "a", "n", "a", "l", "y", "s", "i", "s", ",", " ", "f", "u", "n", "c", "t", "i", "o", "n", "s", ",", " ", "i", "m", "p", "o", "r", "t", "s", ",", " ", "r", "e", "s", "o", "u", "r", "c", "e", "s">>

\* C11: main_py_info with a detail that is none of content, analysis,
\* functions, imports, resources raises nothing and returns the diagnostic
\* that names the detail and lists the five selectors in that order; a
\* detail that is one of the five never gets the diagnostic.
C11_UnknownSelectorDiagnosed ==
    reply.endpoint = "main_py_info" =>
        /\ reply.raised = ""
        /\ reply.input \notin ValidSelectors
           => /\ reply.action = "unknown"
              /\ reply.text = <<"Unknown detail type: ">> \o reply.input
                               \o <<". Available options: ">>
                               \o ValidSelectorList
        /\ reply.input \in ValidSelectors
           => /\ reply.action # "unknown"
              /\ reply.text[1] # "Unknown detail type: "

\* C11 happens: a detail that differs from "content" by case only has got
\* the diagnostic.
C11_Witness ==
    /\ reply.endpoint = "main_py_info"
    /\ reply.input # DetailContent
    /\ Lower(reply.input) = DetailContent
    /\ reply.action = "unknown"
    /\ reply.raised = ""

\* The case-folded text holds one of the topic anchors.
Anchored(text) ==
    \/ Contains(Lower(text), KwMainPy)
    \/ Contains(Lower(text), KwCodebase)
    \/ Contains(Lower(text), KwFile)

\* C12: a prompt whose case-folded text holds none of "main.py",
\* "codebase", "file" gets the echo response: "You asked: ", the prompt as
\* given (in its original case), then the fixed suffix; a prompt that holds
\* an anchor never gets the echo response.
C12_EchoIsTheFallback ==
    reply.endpoint = "handle_prompt" =>
        /\ ~Anchored(reply.input)
           => /\ reply.action = "echo"
              /\ reply.raised = ""
              /\ reply.text = <<"You asked: ">> \o reply.input \o EchoSuffix
        /\ Anchored(reply.input)
           => /\ reply.action # "echo"
              /\ reply.text[1] # "You asked: "

\* C12 happens: a prompt with capital letters and no anchor has been
\* echoed as given.
C12_Witness ==
    /\ reply.endpoint = "handle_prompt"
    /\ ~Anchored(reply.input)
    /\ Lower(reply.input) # reply.input
    /\ reply.action = "echo"
    /\ SubSeq(reply.text, 2, 1 + Len(reply.input)) = reply.input

\* C13: a main.py prompt that holds no intent keyword gets the fixed help
\* text and calls neither analyze_main_py nor analyze_codebase (nor any
\* other wrapped function), also when it holds "codebase" or "file".
C13_UnmatchedIntentGetsHelp ==
    (AboutMainPy /\ \A i \in DOMAIN Intents : ~Matches(reply.input, i))
    => /\ reply.action = "help"
       /\ reply.raised = ""
       /\ reply.text = HelpText
       /\ reply.calls = << >>
       /\ reply.ran = << >>

\* C13 happens: a main.py prompt without an intent keyword that also holds
\* "codebase" and "file" has got the help text.
C13_Witness ==
    /\ AboutMainPy
    /\ \A i \in DOMAIN Intents : ~Matches(reply.input, i)
    /\ Contains(Lower(reply.input), KwCodebase)
    /\ Contains(Lower(reply.input), KwFile)
    /\ reply.action = "help"
    /\ reply.calls = << >>

\* ------------------------------------------- further claims on the cache
\* C14: the table always holds one whole entry per key, and it is the entry
\* of the caller that stored last under that key since the last
\* clear_cache: its result and its clock reading.  (That two callers of one
\* key both miss and both run the function is the state C14_Witness.)
C14_LastWriterWins ==
    /\ DOMAIN cache = DOMAIN built
    /\ \A k \in DOMAIN cache :
          /\ DOMAIN cache[k] = {"result", "timestamp"}
          /\ cache[k].result = built[k].value
          /\ cache[k].timestamp = built[k].time

\* C14 happens: two callers of the same key have both missed, both run the
\* function and both stored; the one with the older clock reading stored
\* last, and the table holds its entry.
C14_Witness ==
    \E a, b \in Threads :
        /\ a # b
        /\ key[a] = key[b]
        /\ HasReturned(a, "miss")
        /\ HasReturned(b, "miss")
        /\ current_time[a] < current_time[b]
        /\ key[a] \in DOMAIN cache
        /\ cache[key[a]] = [result |-> result[a],
                            timestamp |-> current_time[a]]

\* A step of a call on the hit path: the membership test, the read of the
\* timestamp or the read of the result (lines 32-33).
HitPathStep(t) ==
    pc[t] \in {"test", "read_ts", "read_result"} /\ pc'[t] # pc[t]

\* C16: no step of the hit path changes the table, so a hit neither
\* refreshes the entry's timestamp nor replaces its value; and a call whose
\* clock reading is the timeout or more after the clock reading of the miss
\* that stored the entry finds it expired and runs the function, whatever
\* hits came in between.
C16_HitLeavesTableUnchanged ==
    /\ [][\A t \in Threads : HitPathStep(t) => cache' = cache]_vars
    /\ [][\A t \in Threads :
            (/\ TimestampStep(t)
             /\ key[t] \in DOMAIN built
             /\ current_time[t] - built[key[t]].time >= timeout)
            => pc'[t] \in {"invoke", "done"} /\ outcome'[t].kind # "hit"]_vars

\* C16 happens: a call has returned a hit, and the entry still carries the
\* older clock reading of the miss that stored it.
C16_Witness ==
    \E t \in Threads :
        /\ HasReturned(t, "hit")
        /\ key[t] \in DOMAIN cache
        /\ key[t] \in DOMAIN built
        /\ cache[key[t]].timestamp = built[key[t]].time
        /\ cache[key[t]].timestamp = outcome[t].timestamp
        /\ cache[key[t]].timestamp < current_time[t]

\* A step of clear_cache: no thread moves, and the history is reset.
ClearStep ==
    /\ pc' = pc
    /\ clock' = clock
    /\ reply' = reply
    /\ wiped' = DOMAIN cache
    /\ built' = << >>

\* C17, as stated: in every interleaving, a result computed by a run of
\* the wrapped function that had begun when clear_cache ran is never stored
\* in the table, so every entry present after a clear_cache comes from a
\* run that began after it.
C17_InFlightResultNeverStored ==
    [][\A t \in Threads : StoreStep(t) => t \notin preClear]_vars

\* C17, amended: clear_cache leaves no entry in the table, so every entry
\* present afterwards was stored after it; and when no call was in progress
\* while a clear_cache ran, every store is by a call whose run of the
\* wrapped function began after the last clear_cache.
C17_ClearLeavesNoEntry ==
    /\ [][ClearStep => cache' = EmptyCache]_vars
    /\ [][\A t \in Threads :
            (StoreStep(t) /\ ~clearedInFlight) => t \notin preClear]_vars
    /\ [](~clearedInFlight => preClear = {})

\* C17 happens: clear_cache has removed a key while no call was in
\* progress, and the first call on that key since has missed and stored its
\* entry.
C17_Witness ==
    \E t \in Threads :
        /\ ~clearedInFlight
        /\ first[t]
        /\ HasReturned(t, "miss")
        /\ key[t] \in DOMAIN cache
        /\ t \notin preClear

\* ----------------------------------------- further claims on the dispatch
\* What the wrapped functions of main.py store, by key.
StoredResults ==
    [k \in {KeyOf(MkCall("analyze_codebase", << >>, << >>)),
            CacheKey("get_main_py_content", << >>, << >>),
            CacheKey("analyze_main_py", << >>, << >>)} |->
        IF k = KeyOf(MkCall("analyze_codebase", << >>, << >>))
            THEN ResultOf(MkCall("analyze_codebase", << >>, << >>))
        ELSE IF k = CacheKey("get_main_py_content", << >>, << >>)
            THEN MainPyText
        ELSE AnalysisOf(MainPyText)]

\* Cache tables a second run of a request may meet: any of the three
\* entries present or absent, stored at clock reading 0.
TablesTried ==
    { [k \in ks |-> [result |-> StoredResults[k], timestamp |-> 0]] :
        ks \in SUBSET DOMAIN StoredResults }

\* The second runs tried: each of these tables at clock reading 0, where
\* every entry is valid, and the full table at clock reading CACHE_TIMEOUT,
\* where every entry has expired.
RunsTried ==
    { [table |-> tbl, now |-> 0] : tbl \in TablesTried }
    \cup { [table |-> [k \in DOMAIN StoredResults |->
                          [result |-> StoredResults[k], timestamp |-> 0]],
             now |-> CACHE_TIMEOUT] }

\* C15: the action handle_prompt selects depends on the prompt alone: a
\* second run on the prompt just served selects the same action whatever
\* the cache table holds and whatever the clock reads.
C15_ActionDependsOnPromptOnly ==
    reply.endpoint = "handle_prompt" =>
        \A run \in RunsTried :
            handle_prompt(reply.input, run.table, run.now).action = reply.action

\* C15 happens: a prompt has been served from the cache alone, and a run on
\* the same prompt with an empty table, which has to run the functions,
\* selects the same action.
C15_Witness ==
    /\ reply.endpoint = "handle_prompt"
    /\ reply.calls # << >>
    /\ reply.ran = << >>
    /\ handle_prompt(reply.input, EmptyCache, CACHE_TIMEOUT).ran # << >>
    /\ handle_prompt(reply.input, EmptyCache, CACHE_TIMEOUT).action
         = reply.action

\* ------------------------------------ claims on the callers of one key
\* C18, as stated: in every interleaving, a value returned on a hit comes
\* from a run of the wrapped function that began less than the timeout
\* before the clock reading of the call that hit.
C18_HitIsYoungerThanTimeout ==
    \A t \in Threads :
        HasReturned(t, "hit") => current_time[t] - began[t] < timeout

\* C18, amended: the timestamp of an entry is a clock reading taken before
\* the run of the wrapped function that made it began; and as long as no
\* two calls have overlapped, a value returned on a hit comes from a run
\* that began less than the timeout before the clock reading of the call
\* that hit.
C18_SequentialHitIsYoungerThanTimeout ==
    /\ \A k \in DOMAIN cache : cache[k].timestamp <= origin[k]
    /\ ~overlapped => C18_HitIsYoungerThanTimeout

\* C18 happens: calls have not overlapped, and one has hit an entry whose
\* run began before that call read the clock.
C18_Witness ==
    \E t \in Threads :
        /\ ~overlapped
        /\ HasReturned(t, "hit")
        /\ began[t] < current_time[t]
        /\ outcome[t].timestamp <= began[t]

\* C20, as stated: in every interleaving of calls on one key, a store
\* never puts a timestamp under the key that is older than the one it
\* overwrites.
C20_StoredTimestampNeverDecreases ==
    [][\A t \in Threads :
         (StoreStep(t) /\ KeyInCache(cache, key[t]))
            => cache'[key[t]].timestamp >= cache[key[t]].timestamp]_vars

\* C20, amended: as long as no two calls on the key have overlapped, a
\* store never puts a timestamp under the key that is older than the one
\* it overwrites.
C20_SequentialTimestampNeverDecreases ==
    [][\A t \in Threads :
         (~overlapped /\ StoreStep(t) /\ KeyInCache(cache, key[t]))
            => cache'[key[t]].timestamp >= cache[key[t]].timestamp]_vars

\* C20 happens: calls have not overlapped, and a store has just overwritten
\* an expired entry with a later timestamp.
C20_Witness ==
    \E t \in Threads :
        /\ ~overlapped
        /\ HasReturned(t, "miss")
        /\ replaced >= 0
        /\ KeyInCache(cache, key[t])
        /\ replaced < cache[key[t]].timestamp

\* ------------------------------------------- claims on the nested reads
\* C19: over any sequence of requests and clock advances without a
\* clear_cache, a result returned by analyze_main_py is derived from file
\* content read from disk less than 2 * CACHE_TIMEOUT before the return.
C19_AnalysisYoungerThanTwoTimeouts ==
    Called("analyze_main_py") =>
        /\ AnalysisKey \in DOMAIN origin
        /\ clock - origin[AnalysisKey] < 2 * CACHE_TIMEOUT

\* C19 happens: analyze_main_py has answered from its own entry, which was
\* derived from a cached content, and the file was read CACHE_TIMEOUT or
\* more ago, when the content entry itself has expired.
C19_Witness ==
    /\ Called("analyze_main_py")
    /\ reply.ran = << >>
    /\ KeyInCache(cache, ContentKey)
    /\ cache[ContentKey].timestamp < cache[AnalysisKey].timestamp
    /\ ~NotExpired(clock, cache[ContentKey].timestamp, CACHE_TIMEOUT)
    /\ clock - origin[AnalysisKey] >= CACHE_TIMEOUT
====
